---- MODULE Spec2Model ----
(***************************************************************************)
(* Model of generate_event_page.py: the CSV-to-HTML pipeline of main(),    *)
(* its value normalizers, the match grouping, the live-tracker status      *)
(* fold, the leaderboard loader and the index ordering.                    *)
(*                                                                         *)
(* A text (Python str) is a sequence of one-character strings, so that     *)
(* strip(), lower(), upper(), re.sub() and the parsers are computed        *)
(* character by character.  Column names are plain strings.  A CSV row is  *)
(* a function from column name to text (csv.DictReader); a cell that is   *)
(* absent from a short line is None.  A list of row objects is modelled    *)
(* as the sequence of their positions in rows.                             *)
(***************************************************************************)
EXTENDS Integers, Sequences, FiniteSets, TLC

VARIABLES
    csv,                  \* input: the rows csv.DictReader yields for the source CSV
    lbDir,                \* input: data/<EventID>_leaderboard.csv files, EventID -> raw rows
    pc,                   \* position of main()
    rows,                 \* main: rows
    keys,                 \* main: keys
    missing,              \* main: missing
    available_event_ids,  \* main: available_event_ids
    i,                    \* main: position of the batch loop in available_event_ids
    event_rows,           \* main: event_rows of the last iteration
    detected_matches,     \* main: detected_matches of the last iteration
    output_file,          \* main: output_file of the last iteration
    html_text,            \* main: html_text of the last iteration
    live_output_file,     \* main: live_output_file of the last iteration
    leaderboard_rows,     \* main: leaderboard_rows of the last iteration
    live_html,            \* main: live_html of the last iteration
    event_summaries,      \* main: event_summaries
    files                 \* output: file name -> document written by write_text

vars == <<csv, lbDir, pc, rows, keys, missing, available_event_ids, i,
          event_rows, detected_matches, output_file, html_text,
          live_output_file, leaderboard_rows, live_html, event_summaries, files>>

(***************************************************************************)
(* Bounds of the model.                                                    *)
(***************************************************************************)
MaxRows == 3
MaxRemoved == 3
MaxLbRows == 3

(***************************************************************************)
(* Python values and str methods.                                          *)
(***************************************************************************)
None == <<"None">>
NoValue == <<"unset">>

UpperChars == <<"A","B","C","D","E","F","G","H","I","J","K","L","M",
                "N","O","P","Q","R","S","T","U","V","W","X","Y","Z">>
LowerChars == <<"a","b","c","d","e","f","g","h","i","j","k","l","m",
                "n","o","p","q","r","s","t","u","v","w","x","y","z">>
Digits == <<"0","1","2","3","4","5","6","7","8","9">>

IsSpace(c) == c \in {" ", "\t"}
IsDigit(c) == \E d \in 1..10 : Digits[d] = c
DigitVal(c) == (CHOOSE d \in 1..10 : Digits[d] = c) - 1

LowerChar(c) ==
    IF \E k \in 1..26 : UpperChars[k] = c
    THEN LowerChars[CHOOSE k \in 1..26 : UpperChars[k] = c]
    ELSE c

UpperChar(c) ==
    IF \E k \in 1..26 : LowerChars[k] = c
    THEN UpperChars[CHOOSE k \in 1..26 : LowerChars[k] = c]
    ELSE c

\* x or d
OrElse(x, d) == IF x = None \/ x = <<>> THEN d ELSE x

RECURSIVE lstrip(_)
lstrip(s) == IF s # <<>> /\ IsSpace(Head(s)) THEN lstrip(Tail(s)) ELSE s

RECURSIVE rstrip(_)
rstrip(s) ==
    IF s # <<>> /\ IsSpace(s[Len(s)]) THEN rstrip(SubSeq(s, 1, Len(s) - 1)) ELSE s

\* str.strip()
strip(s) == rstrip(lstrip(s))

\* str.lower()
lower(s) == [k \in 1..Len(s) |-> LowerChar(s[k])]

\* str.upper()
upper(s) == [k \in 1..Len(s) |-> UpperChar(s[k])]

\* row.get(key)
Get(row, key) == IF key \in DOMAIN row THEN row[key] ELSE None

\* normalize without the strip()
normalize_unstripped(value) == lower(OrElse(value, <<>>))

normalize(value) == lower(strip(OrElse(value, <<>>)))

RECURSIVE pick_first_key(_, _)
pick_first_key(row, possible_keys) ==
    IF possible_keys = <<>> THEN ""
    ELSE IF Head(possible_keys) \in DOMAIN row THEN Head(possible_keys)
    ELSE pick_first_key(row, Tail(possible_keys))

(***************************************************************************)
(* get_available_event_ids: an OrderedDict keeps a key at the position of  *)
(* its first insertion.                                                    *)
(***************************************************************************)
Contains(seq, x) == \E k \in 1..Len(seq) : seq[k] = x

RECURSIVE collect_event_ids(_, _, _)
collect_event_ids(rs, event_id_key, seen) ==
    IF rs = <<>> THEN seen
    ELSE LET event_id == strip(OrElse(Get(Head(rs), event_id_key), <<>>))
         IN  collect_event_ids(Tail(rs), event_id_key,
                 IF event_id # <<>> /\ ~Contains(seen, event_id)
                 THEN Append(seen, event_id) ELSE seen)

get_available_event_ids(rs, event_id_key) == collect_event_ids(rs, event_id_key, <<>>)

(***************************************************************************)
(* sanitize_event_id, event_output_file and the live-page file name.  A    *)
(* file name is the sequence <<prefix, c1, ..., cn, suffix>>.              *)
(***************************************************************************)
IsFileSafe(c) ==
    \/ \E k \in 1..26 : UpperChars[k] = c \/ LowerChars[k] = c
    \/ IsDigit(c)
    \/ c \in {"_", "-"}

sanitize_event_id(event_id) ==
    LET s == strip(OrElse(event_id, <<>>))
    IN  [k \in 1..Len(s) |-> IF IsFileSafe(s[k]) THEN s[k] ELSE "_"]

event_output_file(event_id) == <<"event_">> \o sanitize_event_id(event_id) \o <<".html">>

live_file_name(event_id) == <<"live_">> \o sanitize_event_id(event_id) \o <<".html">>

INDEX_FILE == <<"index.html">>

(***************************************************************************)
(* datetime.strptime for the three formats of parse_event_date_for_sort    *)
(* and format_event_date.  %m and %d take one or two digits, %Y exactly    *)
(* four, %y exactly two (00-68 -> 20xx, 69-99 -> 19xx); the whole text     *)
(* must be consumed and the date must exist.  (The " 5" spelling of %d is  *)
(* not among the modelled inputs.)                                         *)
(***************************************************************************)
RECURSIVE split_from(_, _, _)
split_from(s, sep, cur) ==
    IF s = <<>> THEN <<cur>>
    ELSE IF Head(s) = sep THEN <<cur>> \o split_from(Tail(s), sep, <<>>)
    ELSE split_from(Tail(s), sep, Append(cur, Head(s)))

\* str.split(sep)
split(s, sep) == split_from(s, sep, <<>>)

AllDigits(p) == p # <<>> /\ \A k \in 1..Len(p) : IsDigit(p[k])

RECURSIVE to_nat(_)
to_nat(p) ==
    IF p = <<>> THEN 0
    ELSE 10 * to_nat(SubSeq(p, 1, Len(p) - 1)) + DigitVal(p[Len(p)])

IsLeap(y) == (y % 4 = 0 /\ y % 100 # 0) \/ y % 400 = 0

DaysInMonth(y, m) ==
    IF m = 2 THEN (IF IsLeap(y) THEN 29 ELSE 28)
    ELSE IF m \in {4, 6, 9, 11} THEN 30 ELSE 31

ValueError == [exc |-> "ValueError"]

make_date(mp, dp, year) ==
    IF /\ AllDigits(mp) /\ Len(mp) <= 2 /\ to_nat(mp) \in 1..12
       /\ AllDigits(dp) /\ Len(dp) <= 2 /\ to_nat(dp) >= 1
       /\ year >= 1
       /\ to_nat(dp) <= DaysInMonth(year, to_nat(mp))
    THEN [exc |-> "", year |-> year, month |-> to_nat(mp), day |-> to_nat(dp)]
    ELSE ValueError

strptime(raw, fmt) ==
    LET sep == IF fmt = "%Y-%m-%d" THEN "-" ELSE "/"
        parts == split(raw, sep)
    IN  IF Len(parts) # 3 THEN ValueError
        ELSE IF fmt = "%m/%d/%Y" THEN
            IF AllDigits(parts[3]) /\ Len(parts[3]) = 4
            THEN make_date(parts[1], parts[2], to_nat(parts[3]))
            ELSE ValueError
        ELSE IF fmt = "%m/%d/%y" THEN
            IF AllDigits(parts[3]) /\ Len(parts[3]) = 2
            THEN make_date(parts[1], parts[2],
                     IF to_nat(parts[3]) <= 68 THEN 2000 + to_nat(parts[3])
                     ELSE 1900 + to_nat(parts[3]))
            ELSE ValueError
        ELSE
            IF AllDigits(parts[1]) /\ Len(parts[1]) = 4
            THEN make_date(parts[2], parts[3], to_nat(parts[1]))
            ELSE ValueError

DateFormats == <<"%m/%d/%Y", "%m/%d/%y", "%Y-%m-%d">>

datetime_min == [exc |-> "", year |-> 1, month |-> 1, day |-> 1]

RECURSIVE first_parse(_, _)
first_parse(raw, fmts) ==
    IF fmts = <<>> THEN ValueError
    ELSE IF strptime(raw, Head(fmts)).exc = "" THEN strptime(raw, Head(fmts))
    ELSE first_parse(raw, Tail(fmts))

parse_event_date_for_sort(date_text) ==
    LET raw == strip(OrElse(date_text, <<>>))
        parsed == first_parse(raw, DateFormats)
    IN  IF parsed.exc = "" THEN parsed ELSE datetime_min

\* the order of datetime values
DateOrd(d) == d.year * 10000 + d.month * 100 + d.day

(***************************************************************************)
(* event_summaries.sort(key=..., reverse=True): list.sort is stable, also  *)
(* with reverse=True.                                                      *)
(***************************************************************************)
\* the key of an ascending sort (reverse=True lost)
SummaryKey_ascending(item) == 0 - DateOrd(parse_event_date_for_sort(item.date))

SummaryKey(item) == DateOrd(parse_event_date_for_sort(item.date))

RECURSIVE insert_summary(_, _)
insert_summary(sorted, item) ==
    IF sorted = <<>> THEN <<item>>
    ELSE IF SummaryKey(Head(sorted)) >= SummaryKey(item)
    THEN <<Head(sorted)>> \o insert_summary(Tail(sorted), item)
    ELSE <<item>> \o sorted

RECURSIVE sort_summaries_from(_, _)
sort_summaries_from(todo, sorted) ==
    IF todo = <<>> THEN sorted
    ELSE sort_summaries_from(Tail(todo), insert_summary(sorted, Head(todo)))

sort_summaries(summaries) == sort_summaries_from(summaries, <<>>)

(***************************************************************************)
(* Grouping of an event's rows into matches (an OrderedDict of lists), as  *)
(* written in build_event_html and again in build_live_html.  A match is   *)
(* [name, rows], rows being positions in the CSV.                          *)
(***************************************************************************)
UnknownMatch == <<"U","n","k","n","o","w","n"," ","M","a","t","c","h">>

\* (row.get(keys["match"]) or "Unknown Match").strip()
match_name_of(row) == strip(OrElse(Get(row, keys.match), UnknownMatch))

MatchPos(matches, name) ==
    IF \E k \in 1..Len(matches) : matches[k].name = name
    THEN CHOOSE k \in 1..Len(matches) : matches[k].name = name
    ELSE 0

\* setdefault(...).insert(0, row) instead of append(row)
setdefault_prepend(matches, match_name, r) ==
    IF MatchPos(matches, match_name) = 0
    THEN Append(matches, [name |-> match_name, rows |-> <<r>>])
    ELSE [matches EXCEPT ![MatchPos(matches, match_name)].rows = <<r>> \o @]

\* matches.setdefault(match_name, []).append(row)
setdefault_append(matches, match_name, r) ==
    IF MatchPos(matches, match_name) = 0
    THEN Append(matches, [name |-> match_name, rows |-> <<r>>])
    ELSE [matches EXCEPT ![MatchPos(matches, match_name)].rows = Append(@, r)]

RECURSIVE event_matches_from(_, _)
event_matches_from(todo, matches) ==
    IF todo = <<>> THEN matches
    ELSE event_matches_from(Tail(todo),
             setdefault_append(matches, match_name_of(rows[Head(todo)]), Head(todo)))

\* build_event_html: matches
event_matches(ev_rows) == event_matches_from(ev_rows, <<>>)

RECURSIVE live_matches_from(_, _)
live_matches_from(todo, matches) ==
    IF todo = <<>> THEN matches
    ELSE live_matches_from(Tail(todo),
             setdefault_append(matches, match_name_of(rows[Head(todo)]), Head(todo)))

\* build_live_html: matches
live_matches(ev_rows) == live_matches_from(ev_rows, <<>>)

RECURSIVE detect_matches_from(_, _)
detect_matches_from(todo, names) ==
    IF todo = <<>> THEN names
    ELSE detect_matches_from(Tail(todo),
             IF Contains(names, match_name_of(rows[Head(todo)])) THEN names
             ELSE Append(names, match_name_of(rows[Head(todo)])))

\* main: list(OrderedDict.fromkeys(...))
detect_matches(ev_rows) == detect_matches_from(ev_rows, <<>>)

(***************************************************************************)
(* Result flag of a wrestler row.                                          *)
(***************************************************************************)
\* the Result text without the upper()
result_raw_not_uppercased(row) ==
    IF keys.result # "" THEN strip(OrElse(Get(row, keys.result), <<>>))
    ELSE <<>>

result_raw_of(row) ==
    IF keys.result # "" THEN upper(strip(OrElse(Get(row, keys.result), <<>>)))
    ELSE <<>>

result_value_of(row) ==
    IF result_raw_of(row) \in {<<"W">>, <<"L">>} THEN result_raw_of(row) ELSE <<>>

raw_event_id_of(ev_rows) == strip(OrElse(Get(rows[ev_rows[1]], keys.event_id), <<>>))

(***************************************************************************)
(* build_event_html: the picks page.  A document is a record of what the   *)
(* page shows: one section per match, one card per wrestler row.           *)
(***************************************************************************)
wrestler_card(r) == [row |-> r, result |-> result_value_of(rows[r])]

picks_section(m) ==
    [name |-> m.name, cards |-> [k \in 1..Len(m.rows) |-> wrestler_card(m.rows[k])]]

build_event_html(ev_rows) ==
    LET matches == event_matches(ev_rows)
    IN  [kind |-> "picks",
         event_id |-> raw_event_id_of(ev_rows),
         match_sections |-> [k \in 1..Len(matches) |-> picks_section(matches[k])]]

(***************************************************************************)
(* build_live_html: the live-tracker page and its status fold.             *)
(***************************************************************************)
winner_count_of(mrows) ==
    Cardinality({k \in 1..Len(mrows) : result_value_of(rows[mrows[k]]) = <<"W">>})

match_status(winner_count) == IF winner_count >= 1 THEN "Final" ELSE "Pending"

live_section(m) ==
    [name |-> m.name,
     status |-> match_status(winner_count_of(m.rows)),
     cards |-> [k \in 1..Len(m.rows) |-> wrestler_card(m.rows[k])]]

RECURSIVE live_fold(_, _)
live_fold(matches, acc) ==
    IF matches = <<>> THEN acc
    ELSE LET winner_count == winner_count_of(Head(matches).rows)
         IN  live_fold(Tail(matches),
                 [completed_matches |-> IF winner_count >= 1
                                        THEN acc.completed_matches + 1
                                        ELSE acc.completed_matches,
                  any_pending |-> IF winner_count >= 1 THEN acc.any_pending ELSE TRUE,
                  match_sections |-> Append(acc.match_sections, live_section(Head(matches)))])

\* the Live and Final branches exchanged
live_status_swapped(completed_matches, any_pending) ==
    IF completed_matches = 0 THEN "Pending"
    ELSE IF any_pending THEN "Final"
    ELSE "Live"

live_status(completed_matches, any_pending) ==
    IF completed_matches = 0 THEN "Pending"
    ELSE IF any_pending THEN "Live"
    ELSE "Final"

Max(a, b) == IF a >= b THEN a ELSE b

top_score_of(lb_rows) ==
    IF lb_rows = <<>> THEN 0
    ELSE CHOOSE s \in {lb_rows[k].Score : k \in 1..Len(lb_rows)} :
             \A k \in 1..Len(lb_rows) : lb_rows[k].Score <= s

leaderboard_line(row, top_score) ==
    [player |-> row.Player,
     score |-> Max(0, row.Score),
     wins |-> row.Wins,
     losses |-> row.Losses,
     pending_wager |-> row.PendingWager,
     max_possible |-> row.MaxPossiblePoints,
     max_output |-> Max(0, row.Score) + row.MaxPossiblePoints,
     leader |-> row.Score = top_score]

build_live_html(ev_rows, lb_rows) ==
    LET matches == live_matches(ev_rows)
        fold == live_fold(matches, [completed_matches |-> 0, any_pending |-> FALSE,
                                    match_sections |-> <<>>])
    IN  [kind |-> "live",
         event_id |-> raw_event_id_of(ev_rows),
         status |-> live_status(fold.completed_matches, fold.any_pending),
         completed_matches |-> fold.completed_matches,
         total_matches |-> Len(matches),
         picks_href |-> <<"event_">> \o sanitize_event_id(raw_event_id_of(ev_rows)) \o <<".html">>,
         live_href |-> <<"live_">> \o sanitize_event_id(raw_event_id_of(ev_rows)) \o <<".html">>,
         leaderboard |-> [k \in 1..Len(lb_rows) |->
                             leaderboard_line(lb_rows[k], top_score_of(lb_rows))],
         match_sections |-> fold.match_sections]

(***************************************************************************)
(* load_leaderboard_rows.  int(float(text)) for the texts                  *)
(* [sign] digits [. digits], nan, inf and infinity: float() accepts inf    *)
(* and nan, int() raises OverflowError on an infinity and ValueError on a  *)
(* nan; only ValueError is caught by the loader.  (Exponent and            *)
(* underscore spellings are not among the modelled inputs.)                *)
(***************************************************************************)
OverflowError == [exc |-> "OverflowError"]

Zero == <<"0">>

IsInfinityWord(body) == lower(body) \in {<<"i","n","f">>, <<"i","n","f","i","n","i","t","y">>}

IsNanWord(body) == lower(body) = <<"n","a","n">>

DigitsOrEmpty(p) == \A k \in 1..Len(p) : IsDigit(p[k])

int_of_float(text) ==
    LET s == strip(text)
        signed == s # <<>> /\ Head(s) \in {"+", "-"}
        body == IF signed THEN Tail(s) ELSE s
        parts == split(body, ".")
        magnitude == to_nat(parts[1])
    IN  IF IsInfinityWord(body) THEN OverflowError
        ELSE IF IsNanWord(body) THEN ValueError
        ELSE IF /\ Len(parts) <= 2
                /\ \A k \in 1..Len(parts) : DigitsOrEmpty(parts[k])
                /\ \E k \in 1..Len(parts) : parts[k] # <<>>
        THEN [exc |-> "", v |-> IF signed /\ Head(s) = "-" THEN 0 - magnitude ELSE magnitude]
        ELSE ValueError

\* try: int(float((cell or "0").strip() or "0")) except ValueError: 0
numeric_cell(cell) ==
    LET r == int_of_float(OrElse(strip(OrElse(cell, Zero)), Zero))
    IN  IF r.exc = "ValueError" THEN [exc |-> "", v |-> 0] ELSE r

score_cell(row) == numeric_cell(OrElse(Get(row, "Score"), OrElse(Get(row, "Net"), Zero)))

clamp_score(score) == Max(0, score)

lb_player(row) == strip(OrElse(Get(row, "Player"), <<>>))

lb_raises(row) ==
    \/ score_cell(row).exc # ""
    \/ \E c \in {"PendingWager", "MaxPossiblePoints", "Wins", "Losses"} :
           numeric_cell(Get(row, c)).exc # ""

valid_row(row) ==
    [Player |-> lb_player(row),
     Score |-> clamp_score(score_cell(row).v),
     PendingWager |-> numeric_cell(Get(row, "PendingWager")).v,
     MaxPossiblePoints |-> numeric_cell(Get(row, "MaxPossiblePoints")).v,
     Wins |-> numeric_cell(Get(row, "Wins")).v,
     Losses |-> numeric_cell(Get(row, "Losses")).v]

HasPlayer(row) == lb_player(row) # <<>>

\* valid_rows.sort(key=lambda item: item["Score"], reverse=True): stable
RECURSIVE insert_by_score(_, _)
insert_by_score(sorted, item) ==
    IF sorted = <<>> THEN <<item>>
    ELSE IF Head(sorted).Score >= item.Score
    THEN <<Head(sorted)>> \o insert_by_score(Tail(sorted), item)
    ELSE <<item>> \o sorted

RECURSIVE sort_by_score_from(_, _)
sort_by_score_from(todo, sorted) ==
    IF todo = <<>> THEN sorted
    ELSE sort_by_score_from(Tail(todo), insert_by_score(sorted, Head(todo)))

sort_by_score(valid_rows) == sort_by_score_from(valid_rows, <<>>)

\* a leaderboard file that exists but cannot be opened or decoded
Unreadable == <<[undecodable |-> TRUE]>>

load_leaderboard_rows(event_id) ==
    IF event_id \notin DOMAIN lbDir THEN [exc |-> "", rows |-> <<>>]
    ELSE IF lbDir[event_id] = Unreadable THEN [exc |-> "OSError", rows |-> <<>>]
    ELSE LET named == SelectSeq(lbDir[event_id], HasPlayer)
         IN  IF \E k \in 1..Len(named) : lb_raises(named[k])
             THEN [exc |-> "OverflowError", rows |-> <<>>]
             ELSE [exc |-> "", rows |-> sort_by_score([k \in 1..Len(named) |-> valid_row(named[k])])]

(***************************************************************************)
(* main().                                                                 *)
(***************************************************************************)
required_keys == <<"event_id", "event", "date", "start_time", "country", "location",
                   "venue", "match", "wrestler", "champion", "odds">>

resolve_keys(sample_row) ==
    [event_id |-> pick_first_key(sample_row, <<"EventID">>),
     event |-> pick_first_key(sample_row, <<"Event">>),
     date |-> pick_first_key(sample_row, <<"Date">>),
     start_time |-> pick_first_key(sample_row, <<"StartTime", "Start Time">>),
     country |-> pick_first_key(sample_row, <<"Country">>),
     location |-> pick_first_key(sample_row, <<"Location">>),
     venue |-> pick_first_key(sample_row, <<"Venue">>),
     match |-> pick_first_key(sample_row, <<"Match">>),
     wrestler |-> pick_first_key(sample_row, <<"Wrestler">>),
     champion |-> pick_first_key(sample_row, <<"CurrentChamp", "Current Champ (Y/N)">>),
     odds |-> pick_first_key(sample_row, <<"Odds">>),
     result |-> pick_first_key(sample_row, <<"Result">>)]

\* only the first unresolved field is reported
missing_keys_first_only(ks) ==
    LET Unresolved(name) == ks[name] = ""
        all == SelectSeq(required_keys, Unresolved)
    IN  IF all = <<>> THEN <<>> ELSE <<Head(all)>>

missing_keys(ks) ==
    LET Unresolved(name) == ks[name] = ""
    IN  SelectSeq(required_keys, Unresolved)

\* [row for row in rows if normalize(row.get(keys["event_id"]) or "") == normalize(event_id)]
select_event_rows(event_id) ==
    LET Selected(k) ==
            normalize(OrElse(Get(rows[k], keys.event_id), <<>>)) = normalize(event_id)
    IN  SelectSeq([k \in 1..Len(rows) |-> k], Selected)

event_summary(ev_rows, out_file) ==
    [event_id |-> strip(OrElse(Get(rows[ev_rows[1]], keys.event_id), <<>>)),
     date |-> strip(OrElse(Get(rows[ev_rows[1]], keys.date), <<>>)),
     file_name |-> out_file]

\* the live link built from the EventID without sanitize_event_id
index_item_unsanitized(item) ==
    [event_id |-> item.event_id,
     date |-> item.date,
     href |-> item.file_name,
     live_href |-> <<"live_">> \o item.event_id \o <<".html">>]

index_item(item) ==
    [event_id |-> item.event_id,
     date |-> item.date,
     href |-> item.file_name,
     live_href |-> <<"live_">> \o sanitize_event_id(item.event_id) \o <<".html">>]

\* path.write_text(document)
write_text(fs, name, document) ==
    [n \in DOMAIN fs \cup {name} |-> IF n = name THEN document ELSE fs[n]]

Exited == {"exit_empty_csv", "exit_missing_columns", "exit_no_event_ids"}

\* rows = load_rows(csv_path); if not rows: return
LoadRows ==
    /\ pc = "start"
    /\ rows' = csv
    /\ pc' = IF csv = <<>> THEN "exit_empty_csv" ELSE "keys"
    /\ UNCHANGED <<csv, lbDir, keys, missing, available_event_ids, i, event_rows,
                   detected_matches, output_file, html_text, live_output_file,
                   leaderboard_rows, live_html, event_summaries, files>>

\* the return after the missing-columns message is lost
ResolveKeys_no_return ==
    /\ pc = "keys"
    /\ keys' = resolve_keys(rows[1])
    /\ missing' = missing_keys(keys')
    /\ pc' = "ids"
    /\ UNCHANGED <<csv, lbDir, rows, available_event_ids, i, event_rows,
                   detected_matches, output_file, html_text, live_output_file,
                   leaderboard_rows, live_html, event_summaries, files>>

\* keys = {...}; missing = [...]; if missing: return
ResolveKeys ==
    /\ pc = "keys"
    /\ keys' = resolve_keys(rows[1])
    /\ missing' = missing_keys(keys')
    /\ pc' = IF missing' # <<>> THEN "exit_missing_columns" ELSE "ids"
    /\ UNCHANGED <<csv, lbDir, rows, available_event_ids, i, event_rows,
                   detected_matches, output_file, html_text, live_output_file,
                   leaderboard_rows, live_html, event_summaries, files>>

\* available_event_ids = get_available_event_ids(...); if not available_event_ids: return
ListEventIds ==
    /\ pc = "ids"
    /\ available_event_ids' = get_available_event_ids(rows, keys.event_id)
    /\ pc' = IF available_event_ids' = <<>> THEN "exit_no_event_ids" ELSE "loop"
    /\ i' = 1
    /\ event_summaries' = <<>>
    /\ UNCHANGED <<csv, lbDir, rows, keys, missing, event_rows, detected_matches,
                   output_file, html_text, live_output_file, leaderboard_rows,
                   live_html, files>>

\* one iteration of: for event_id in available_event_ids
ProcessEvent ==
    /\ pc = "loop"
    /\ i <= Len(available_event_ids)
    /\ LET event_id == available_event_ids[i]
           loaded == load_leaderboard_rows(event_id)
       IN  /\ event_rows' = select_event_rows(event_id)
           /\ IF event_rows' = <<>>
              THEN /\ i' = i + 1
                   /\ UNCHANGED <<pc, detected_matches, output_file, html_text,
                                  live_output_file, leaderboard_rows, live_html,
                                  event_summaries, files>>
              ELSE /\ detected_matches' = detect_matches(event_rows')
                   /\ output_file' = event_output_file(event_id)
                   /\ html_text' = build_event_html(event_rows')
                   /\ live_output_file' = live_file_name(event_id)
                   /\ IF loaded.exc # ""
                      THEN /\ pc' = "crashed"
                           /\ files' = write_text(files, output_file', html_text')
                           /\ UNCHANGED <<i, leaderboard_rows, live_html, event_summaries>>
                      ELSE /\ leaderboard_rows' = loaded.rows
                           /\ live_html' = build_live_html(event_rows', leaderboard_rows')
                           /\ files' = write_text(write_text(files, output_file', html_text'),
                                                  live_output_file', live_html')
                           /\ event_summaries' =
                                  Append(event_summaries, event_summary(event_rows', output_file'))
                           /\ i' = i + 1
                           /\ pc' = pc
    /\ UNCHANGED <<csv, lbDir, rows, keys, missing, available_event_ids>>

\* event_summaries.sort(...); index_items; INDEX_FILE.write_text(index_html)
BuildIndex ==
    /\ pc = "loop"
    /\ i > Len(available_event_ids)
    /\ event_summaries' = sort_summaries(event_summaries)
    /\ files' = write_text(files, INDEX_FILE,
                    [kind |-> "index",
                     items |-> [k \in 1..Len(event_summaries') |->
                                   index_item(event_summaries'[k])]])
    /\ pc' = "done"
    /\ UNCHANGED <<csv, lbDir, rows, keys, missing, available_event_ids, i, event_rows,
                   detected_matches, output_file, html_text, live_output_file,
                   leaderboard_rows, live_html>>

Next == LoadRows \/ ResolveKeys \/ ListEventIds \/ ProcessEvent \/ BuildIndex

(***************************************************************************)
(* Inputs.                                                                 *)
(***************************************************************************)
SeqsUpTo(S, n) == UNION {[1..k -> S] : k \in 0..n}

Filler == <<"x">>

HeadersWithResult == {"EventID", "Event", "Date", "StartTime", "Country", "Location",
                      "Venue", "Match", "Wrestler", "CurrentChamp", "Odds", "Result"}

HeadersNoResult == HeadersWithResult \ {"Result"}

CsvRow(headers, cells) ==
    [h \in headers |-> IF h \in DOMAIN cells THEN cells[h] ELSE Filler]

CsvOf(headers, body) == [k \in 1..Len(body) |-> CsvRow(headers, body[k])]

Cells(id, date, match, result) ==
    [EventID |-> id, Date |-> date, Match |-> match, Result |-> result]

DateFeb28 == <<"2","/","2","8","/","2","0","2","6">>
DateMar1Short == <<"3","/","1","/","2","6">>
DateMar1Iso == <<"2","0","2","6","-","0","3","-","0","1">>
DateMin == <<"0","0","0","1","-","0","1","-","0","1">>
DateBad == <<"b","a","d">>

IdTexts == {<<"A">>, <<"a">>, <<" ","A"," ">>, <<"A"," ","B">>, <<"A","_","B">>, <<>>}
ResultTexts == {<<"W">>, <<" ","w">>, <<"L">>, <<"x">>, <<>>}
DateMinSlashed == <<"1","/","1","/","0","0","0","1">>
DateFeb30 == <<"2","/","3","0","/","2","0","2","6">>
DateTexts == {DateFeb28, DateMar1Short, DateMar1Iso, DateMin, DateMinSlashed, DateFeb30,
              DateBad, <<>>}

IdRows == {Cells(id, DateFeb28, m, <<"W">>) : id \in IdTexts, m \in {<<"M">>, <<"N">>}}

MatchRows ==
    {Cells(<<"A">>, DateFeb28, m, r) : m \in {<<"M">>, <<"N">>}, r \in ResultTexts}
        \cup {Cells(<<"A">>, DateFeb28, m, <<"L">>) : m \in {<<" "," ">>, <<>>}}
        \cup {Cells(<<"A">>, DateFeb28, None, <<"W">>),
              Cells(<<"B">>, DateFeb28, <<"M">>, <<"L">>)}

\* one row per event, the k-th row with the k-th letter as EventID
DatedEvents(dates) ==
    [k \in 1..Len(dates) |-> Cells(<<UpperChars[k]>>, dates[k], <<"M">>, <<"W">>)]

NoLeaderboards == <<>>

InitMain ==
    /\ pc = "start"
    /\ rows = <<>>
    /\ keys = NoValue
    /\ missing = <<>>
    /\ available_event_ids = <<>>
    /\ i = 0
    /\ event_rows = <<>>
    /\ detected_matches = <<>>
    /\ output_file = NoValue
    /\ html_text = NoValue
    /\ live_output_file = NoValue
    /\ leaderboard_rows = <<>>
    /\ live_html = NoValue
    /\ event_summaries = <<>>
    /\ files = <<>>

\* EventID texts vary
Init ==
    /\ \E body \in SeqsUpTo(IdRows, MaxRows) : csv = CsvOf(HeadersWithResult, body)
    /\ lbDir = NoLeaderboards
    /\ InitMain

Spec == Init /\ [][Next]_vars

\* Match and Result texts vary, with and without a Result column
InitMatch ==
    /\ \E body \in SeqsUpTo(MatchRows, MaxRows), hs \in {HeadersWithResult, HeadersNoResult} :
           csv = CsvOf(hs, body)
    /\ lbDir = NoLeaderboards
    /\ InitMain

SpecMatch == InitMatch /\ [][Next]_vars

\* Date texts vary
InitIndex ==
    /\ \E dates \in SeqsUpTo(DateTexts, MaxRows) :
           csv = CsvOf(HeadersWithResult, DatedEvents(dates))
    /\ lbDir = NoLeaderboards
    /\ InitMain

SpecIndex == InitIndex /\ [][Next]_vars

\* leaderboard files vary
LbCells(player, score, net, pending, maxpts) ==
    [Player |-> player, Score |-> score, Net |-> net, PendingWager |-> pending,
     MaxPossiblePoints |-> maxpts, Wins |-> <<"1">>, Losses |-> <<"0">>]

ScoreTexts == {<<"5">>, <<"-","3">>, <<"2",".","9">>, <<"a","b","c">>, <<>>, <<"i","n","f">>}

LbRows ==
    {LbCells(p, s, <<>>, <<"4">>, <<"1","0">>) : p \in {<<"P">>, <<"Q">>}, s \in ScoreTexts}
        \cup {LbCells(<<" "," ">>, <<"5">>, <<>>, <<"4">>, <<"1","0">>),
              LbCells(<<"P">>, <<>>, <<"7">>, <<"4">>, <<"1","0">>),
              LbCells(<<"Q">>, <<"5">>, <<>>, <<"-","5">>, <<"-","1","0">>)}

BoardCsv ==
    CsvOf(HeadersWithResult, <<Cells(<<"A">>, DateFeb28, <<"M">>, <<"W">>),
                               Cells(<<"B">>, DateFeb28, <<"M">>, <<"L">>)>>)

InitBoard ==
    /\ csv = BoardCsv
    /\ \/ lbDir = NoLeaderboards
       \/ \E body \in SeqsUpTo(LbRows, MaxLbRows) : lbDir = [id \in {<<"A">>} |-> body]
    /\ InitMain

SpecBoard == InitBoard /\ [][Next]_vars

\* the header row varies: canonical headers removed, synonyms added
HeaderSynonyms == {"Start Time", "Current Champ (Y/N)"}

HeaderSets ==
    {(HeadersWithResult \ removed) \cup added :
         removed \in {r \in SUBSET HeadersWithResult : Cardinality(r) <= MaxRemoved},
         added \in SUBSET HeaderSynonyms}

HeaderRows == {Cells(<<"A">>, DateFeb28, <<"M">>, <<"W">>),
               Cells(<<>>, DateFeb28, <<"M">>, <<"W">>)}

InitHeaders ==
    /\ \E body \in SeqsUpTo(HeaderRows, MaxRows), hs \in HeaderSets : csv = CsvOf(hs, body)
    /\ lbDir = NoLeaderboards
    /\ InitMain

SpecHeaders == InitHeaders /\ [][Next]_vars

\* the leaderboard files of two events are absent, empty or unreadable
IoRows == {Cells(<<"A">>, DateFeb28, <<"M">>, <<"W">>),
           Cells(<<"B">>, DateFeb28, <<"M">>, <<"L">>)}

InitIo ==
    /\ \E body \in SeqsUpTo(IoRows, MaxRows) : csv = CsvOf(HeadersWithResult, body)
    /\ \E present \in SUBSET {<<"A">>, <<"B">>} : lbDir \in [present -> {Unreadable, <<>>}]
    /\ InitMain

SpecIo == InitIo /\ [][Next]_vars

(***************************************************************************)
(* Properties.                                                             *)
(***************************************************************************)
Range(seq) == {seq[k] : k \in 1..Len(seq)}

LoopReached == pc \in {"loop", "done", "crashed"}

\* the last iteration of the batch loop wrote both pages of its event
IterationDone == pc \in {"loop", "done"} /\ i > 1 /\ event_rows # <<>>

HasWinnerCard(section) ==
    \E c \in 1..Len(section.cards) : section.cards[c].result = <<"W">>

WinnerSections(page) ==
    {k \in 1..Len(page.match_sections) : HasWinnerCard(page.match_sections[k])}

\* C1: the live page reports Pending iff no match has a winner, Final iff
\* every match has one and Live iff some but not all have one; total is the
\* number of matches, at least 1, and 0 <= completed <= total.
C1_EventStatus ==
    IterationDone =>
        LET total == Len(live_html.match_sections)
            completed == Cardinality(WinnerSections(live_html))
        IN  /\ total >= 1
            /\ live_html.total_matches = total
            /\ live_html.completed_matches = completed
            /\ 0 <= live_html.completed_matches
            /\ live_html.completed_matches <= live_html.total_matches
            /\ live_html.status \in {"Pending", "Live", "Final"}
            /\ live_html.status = "Pending" <=> completed = 0
            /\ live_html.status = "Final" <=> completed = total
            /\ live_html.status = "Live" <=> (0 < completed /\ completed < total)

\* a live page with one decided and one undecided match
C1_Witness ==
    /\ IterationDone
    /\ live_html.status = "Live"
    /\ live_html.completed_matches = 1
    /\ live_html.total_matches = 2

ResultColumn == "Result" \in DOMAIN rows[1]

IsWinText(cell) == cell # None /\ strip(cell) \in {<<"W">>, <<"w">>}

\* C2: a match is Final iff one of its rows has a Result cell that is W
\* after trimming and uppercasing, otherwise Pending; without a Result
\* column every match and the event are Pending.
C2_MatchStatus ==
    IterationDone =>
        /\ \A k \in 1..Len(live_html.match_sections) :
               LET section == live_html.match_sections[k]
               IN  /\ section.status \in {"Final", "Pending"}
                   /\ section.status = "Final" <=>
                          /\ ResultColumn
                          /\ \E c \in 1..Len(section.cards) :
                                 IsWinText(rows[section.cards[c].row]["Result"])
        /\ ~ResultColumn =>
               /\ \A k \in 1..Len(live_html.match_sections) :
                      live_html.match_sections[k].status = "Pending"
               /\ live_html.status = "Pending"

\* a match is Final because of a Result cell that needs trimming and uppercasing
C2_Witness ==
    /\ IterationDone
    /\ ResultColumn
    /\ \E k \in 1..Len(live_html.match_sections) :
           /\ live_html.match_sections[k].status = "Final"
           /\ \A c \in 1..Len(live_html.match_sections[k].cards) :
                  rows[live_html.match_sections[k].cards[c].row]["Result"] \in
                      {<<" ","w">>, <<"L">>}

TrimmedId(k) == strip(OrElse(rows[k]["EventID"], <<>>))

FirstRowOf(id) == CHOOSE k \in 1..Len(rows) : TrimmedId(k) = id /\ \A j \in 1..(k - 1) : TrimmedId(j) # id

\* C3: available_event_ids is the list of the distinct non-empty trimmed
\* EventID values in order of first occurrence; the selection of every
\* listed EventID is non-empty, no listed event is skipped and the index
\* gets one summary per listed EventID.
C3_EventIds ==
    /\ LoopReached =>
           /\ Range(available_event_ids) = {TrimmedId(k) : k \in 1..Len(rows)} \ {<<>>}
           /\ \A j, k \in 1..Len(available_event_ids) :
                  j < k => /\ available_event_ids[j] # available_event_ids[k]
                           /\ FirstRowOf(available_event_ids[j]) < FirstRowOf(available_event_ids[k])
    /\ (pc \in {"loop", "done"} /\ i > 1) =>
           /\ event_rows # <<>>
           /\ Range(event_rows) =
                  {k \in 1..Len(rows) :
                       lower(TrimmedId(k)) = lower(strip(available_event_ids[i - 1]))}
           /\ Len(event_summaries) = i - 1
    /\ pc = "done" =>
           /\ Len(event_summaries) = Len(available_event_ids)
           /\ Len(files[INDEX_FILE].items) = Len(available_event_ids)

\* a finished run over padded, repeated and case-variant EventIDs
C3_Witness ==
    /\ pc = "done"
    /\ Len(available_event_ids) = 2
    /\ Len(rows) = 3
    /\ \E k \in 1..Len(rows) : rows[k]["EventID"] = <<" ","A"," ">>
    /\ \E k \in 1..Len(rows) : rows[k]["EventID"] = <<>>

SectionRows(section) == [c \in 1..Len(section.cards) |-> section.cards[c].row]

PageGroups(page) ==
    [k \in 1..Len(page.match_sections) |->
        [name |-> page.match_sections[k].name, rows |-> SectionRows(page.match_sections[k])]]

MatchKey(k) ==
    LET cell == rows[k]["Match"]
    IN  strip(IF cell = None \/ cell = <<>> THEN UnknownMatch ELSE cell)

IsOrderedPartition(groups, ev_rows) ==
    /\ \A r \in Range(ev_rows) :
           Cardinality({<<k, c>> \in (1..Len(groups)) \X (1..Len(ev_rows)) :
                            c <= Len(groups[k].rows) /\ groups[k].rows[c] = r}) = 1
    /\ \A k \in 1..Len(groups) :
           /\ groups[k].rows # <<>>
           /\ Range(groups[k].rows) \subseteq Range(ev_rows)
           /\ \A c \in 1..Len(groups[k].rows) : MatchKey(groups[k].rows[c]) = groups[k].name
           /\ \A c, d \in 1..Len(groups[k].rows) : c < d => groups[k].rows[c] < groups[k].rows[d]
    /\ \A j, k \in 1..Len(groups) :
           j < k => /\ groups[j].name # groups[k].name
                    /\ groups[j].rows[1] < groups[k].rows[1]

\* C4: on both pages the match sections are an order-preserving partition
\* of the event's rows (every row in exactly one match, match keys in order
\* of first occurrence, rows of a match in source order), and the picks
\* page and the live page show the same grouping.
C4_Grouping ==
    IterationDone =>
        /\ IsOrderedPartition(PageGroups(html_text), event_rows)
        /\ IsOrderedPartition(PageGroups(live_html), event_rows)
        /\ PageGroups(html_text) = PageGroups(live_html)
        /\ detected_matches = [k \in 1..Len(html_text.match_sections) |->
                                  html_text.match_sections[k].name]

\* rows of two matches interleaved: M, N, M
C4_Witness ==
    /\ IterationDone
    /\ Len(html_text.match_sections) = 2
    /\ SectionRows(html_text.match_sections[1]) = <<1, 3>>
    /\ SectionRows(html_text.match_sections[2]) = <<2>>

IsBlank(cell) == cell = None \/ strip(cell) = <<>>

\* C5: the match key of a row is its trimmed match name, "Unknown Match"
\* when that is blank (missing, empty or whitespace only): no section is
\* keyed by the empty string and blank rows are under "Unknown Match".
C5_MatchKey ==
    IterationDone =>
        /\ \A k \in 1..Len(html_text.match_sections) :
               LET section == html_text.match_sections[k]
               IN  /\ section.name # <<>>
                   /\ \A c \in 1..Len(section.cards) :
                          LET cell == rows[section.cards[c].row]["Match"]
                          IN  section.name = IF IsBlank(cell) THEN UnknownMatch ELSE strip(cell)
        /\ \A k \in 1..Len(detected_matches) : detected_matches[k] # <<>>

\* C6: the picks and live file names of two different listed EventIDs are
\* different, so a finished run leaves one picks page and one live page per
\* listed event, next to the index.
C6_DistinctFiles ==
    /\ LoopReached =>
           \A j, k \in 1..Len(available_event_ids) :
               j # k => /\ event_output_file(available_event_ids[j]) #
                               event_output_file(available_event_ids[k])
                        /\ live_file_name(available_event_ids[j]) #
                               live_file_name(available_event_ids[k])
    /\ pc = "done" =>
           /\ Cardinality({n \in DOMAIN files : files[n].kind = "picks"}) =
                  Len(available_event_ids)
           /\ Cardinality({n \in DOMAIN files : files[n].kind = "live"}) =
                  Len(available_event_ids)

\* C7: the "Live Tracker" link of a live page targets the file the page is
\* written to and its "Make Picks" link targets the picks file written in
\* the same iteration.
C7_SelfLinks ==
    /\ IterationDone =>
           /\ live_html.live_href = live_output_file
           /\ live_html.picks_href = output_file
    /\ \A n \in DOMAIN files : files[n].kind = "live" => files[n].live_href = n

DateKey(text) == DateOrd(parse_event_date_for_sort(text))

Parses(text) == \E f \in 1..3 : strptime(strip(text), DateFormats[f]).exc = ""

WithKey(seq, v) ==
    LET HasKey(item) == DateKey(item.date) = v
    IN  SelectSeq(seq, HasKey)

\* new is old sorted by date key, newest first, equal keys in the old order
IsStableDescending(new, old) ==
    /\ Len(new) = Len(old)
    /\ \A j, k \in 1..Len(new) : j < k => DateKey(new[j].date) >= DateKey(new[k].date)
    /\ \A k \in 1..Len(old) :
           WithKey(new, DateKey(old[k].date)) = WithKey(old, DateKey(old[k].date))

IndexShows(fs, summaries) ==
    /\ Len(fs[INDEX_FILE].items) = Len(summaries)
    /\ \A k \in 1..Len(summaries) :
           /\ fs[INDEX_FILE].items[k].event_id = summaries[k].event_id
           /\ fs[INDEX_FILE].items[k].date = summaries[k].date
           /\ fs[INDEX_FILE].items[k].href = summaries[k].file_name

IndexStep == pc = "loop" /\ pc' = "done"

\* C8 as stated: the index lists the summaries newest first, every event
\* whose date parses in no format after every event whose date parses, and
\* otherwise in the order of the batch loop.
C8_UnparsedLast ==
    [][IndexStep =>
          /\ IsStableDescending(event_summaries', event_summaries)
          /\ IndexShows(files', event_summaries')
          /\ \A j, k \in 1..Len(event_summaries') :
                 j < k => ~(/\ ~Parses(event_summaries'[j].date)
                            /\ Parses(event_summaries'[k].date))]_vars

\* C8 as amended: the index lists the summaries newest first, every event
\* whose date parses in no format after every event whose date parses to a
\* date later than the minimum date 0001-01-01 (the key of an unparseable
\* text); summaries of equal key keep the order of the batch loop.
C8_IndexOrder ==
    [][IndexStep =>
          /\ IsStableDescending(event_summaries', event_summaries)
          /\ IndexShows(files', event_summaries')
          /\ \A j, k \in 1..Len(event_summaries') :
                 j < k => ~(/\ ~Parses(event_summaries'[j].date)
                            /\ Parses(event_summaries'[k].date)
                            /\ DateKey(event_summaries'[k].date) > DateOrd(datetime_min))]_vars

\* an index of three events: two parsed dates of equal key written in two
\* formats, listed before an event with an unparseable date that the batch
\* loop met first
C8_Witness ==
    /\ pc = "done"
    /\ Len(event_summaries) = 3
    /\ event_summaries[1].date = DateMar1Iso
    /\ event_summaries[2].date = DateMar1Short
    /\ event_summaries[3].date = DateBad
    /\ available_event_ids[1] = event_summaries[3].event_id

LastEventId == IF pc = "crashed" THEN available_event_ids[i] ELSE available_event_ids[i - 1]

LeaderboardInput == IF LastEventId \in DOMAIN lbDir THEN lbDir[LastEventId] ELSE <<>>

Players(seq) == [k \in 1..Len(seq) |-> seq[k].Player]

RankedScore(row) == clamp_score(score_cell(row).v)

\* the rows returned are the named input rows, by clamped score descending,
\* rows of equal score in input order
IsRanking(returned, input) ==
    LET named == SelectSeq(input, HasPlayer)
    IN  /\ Len(returned) = Len(named)
        /\ \A j, k \in 1..Len(returned) : j < k => returned[j].Score >= returned[k].Score
        /\ \A k \in 1..Len(returned) :
               LET ReturnedAt(row) == row.Score = returned[k].Score
                   InputAt(row) == RankedScore(row) = returned[k].Score
               IN  Players(SelectSeq(returned, ReturnedAt)) =
                       [n \in 1..Len(SelectSeq(named, InputAt)) |->
                           strip(SelectSeq(named, InputAt)[n]["Player"])]

\* C9: load_leaderboard_rows returns exactly the input rows with a
\* non-empty trimmed player name, ordered by clamped score descending,
\* equal scores in input order, a non-numeric Score text ranking as 0.
C9_Ranking ==
    /\ pc # "crashed"
    /\ IterationDone => IsRanking(leaderboard_rows, LeaderboardInput)

\* the ranking part of C9 on the calls that return
C9_RankingWhenReturned == IterationDone => IsRanking(leaderboard_rows, LeaderboardInput)

\* C10: every returned leaderboard row has Score, PendingWager and
\* MaxPossiblePoints >= 0, so the rendered max output is never below the
\* rendered score.
C10_NonNegative ==
    IterationDone =>
        /\ \A k \in 1..Len(leaderboard_rows) :
               /\ leaderboard_rows[k].Score >= 0
               /\ leaderboard_rows[k].PendingWager >= 0
               /\ leaderboard_rows[k].MaxPossiblePoints >= 0
        /\ \A k \in 1..Len(live_html.leaderboard) :
               live_html.leaderboard[k].max_output >= live_html.leaderboard[k].score

HeaderNamesOf ==
    [event_id |-> {"EventID"}, event |-> {"Event"}, date |-> {"Date"},
     start_time |-> {"StartTime", "Start Time"}, country |-> {"Country"},
     location |-> {"Location"}, venue |-> {"Venue"}, match |-> {"Match"},
     wrestler |-> {"Wrestler"}, champion |-> {"CurrentChamp", "Current Champ (Y/N)"},
     odds |-> {"Odds"}]

UnresolvedFields == {name \in DOMAIN HeaderNamesOf : HeaderNamesOf[name] \cap DOMAIN rows[1] = {}}

KeysResolved == rows # <<>> /\ pc \notin {"start", "keys"}

\* C11: the run is rejected for missing columns exactly when a required
\* field has none of its header names in the first record, and then the
\* missing list holds every such field once and nothing else, never the
\* optional result.
C11_MissingColumns ==
    KeysResolved =>
        /\ pc = "exit_missing_columns" <=> UnresolvedFields # {}
        /\ Range(missing) = UnresolvedFields
        /\ Len(missing) = Cardinality(UnresolvedFields)
        /\ "result" \notin Range(missing)

\* two fields reported at once, while a synonym header resolves a third
C11_Witness ==
    /\ pc = "exit_missing_columns"
    /\ missing = <<"start_time", "odds">>
    /\ "Current Champ (Y/N)" \in DOMAIN rows[1]
    /\ "CurrentChamp" \notin DOMAIN rows[1]

NoUsableEventId ==
    \A k \in 1..Len(csv) :
        \/ "EventID" \notin DOMAIN csv[k]
        \/ csv[k]["EventID"] = None
        \/ strip(csv[k]["EventID"]) = <<>>

FatalInput ==
    \/ csv = <<>>
    \/ \E name \in DOMAIN HeaderNamesOf : HeaderNamesOf[name] \cap DOMAIN csv[1] = {}
    \/ NoUsableEventId

\* C12: on a run-level fatal error (no records, a missing required column,
\* no usable EventID) main returns with no picks page, no live page and no
\* index page written.
C12_NoOutputOnFatal ==
    FatalInput =>
        /\ files = <<>>
        /\ pc \in {"start", "keys", "ids"} \cup Exited

\* records exist, all columns resolve, but no record carries an EventID
C12_Witness ==
    /\ pc = "exit_no_event_ids"
    /\ Len(rows) = 2
    /\ missing = <<>>
    /\ files = <<>>

Terminated == pc \in Exited \cup {"done", "crashed"}

EventFails(j) == load_leaderboard_rows(available_event_ids[j]).exc # ""

PagesWritten(j) ==
    /\ event_output_file(available_event_ids[j]) \in DOMAIN files
    /\ live_file_name(available_event_ids[j]) \in DOMAIN files

\* C13: when the run has ended after the batch loop was entered, the index
\* is written and so are the pages of every event that does not fail itself
\* and is listed after an event whose processing failed.
C13_FailureIsolated ==
    (Terminated /\ LoopReached) =>
        /\ INDEX_FILE \in DOMAIN files
        /\ \A f, j \in 1..Len(available_event_ids) :
               (f < j /\ EventFails(f) /\ ~EventFails(j)) => PagesWritten(j)

SelectionsOf(k) ==
    {j \in 1..Len(available_event_ids) :
         k \in Range(select_event_rows(available_event_ids[j]))}

ShowsRow(page, k) ==
    \E m \in 1..Len(page.match_sections) :
        \E c \in 1..Len(page.match_sections[m].cards) :
            page.match_sections[m].cards[c].row = k

PicksPagesShowing(k) ==
    {n \in DOMAIN files : files[n].kind = "picks" /\ ShowsRow(files[n], k)}

\* C14: every record with a non-empty trimmed EventID is in the selection
\* of exactly one listed event, and its wrestler is shown on the picks page
\* of one event only.
C14_OneEventPerRecord ==
    LoopReached =>
        \A k \in 1..Len(rows) :
            TrimmedId(k) # <<>> =>
                /\ Cardinality(SelectionsOf(k)) = 1
                /\ Cardinality(PicksPagesShowing(k)) <= 1

\* C15: after a finished run both links of every index block target files
\* the run has written: the picks link a picks page, the live link a live
\* page.
C15_IndexLinks ==
    pc = "done" =>
        \A k \in 1..Len(files[INDEX_FILE].items) :
            LET item == files[INDEX_FILE].items[k]
            IN  /\ item.href \in DOMAIN files
                /\ files[item.href].kind = "picks"
                /\ item.live_href \in DOMAIN files
                /\ files[item.live_href].kind = "live"

\* a finished run over EventIDs that differ only in case and padding
C15_Witness ==
    /\ pc = "done"
    /\ available_event_ids = <<<<"a">>, <<"A">>>>
    /\ \E k \in 1..Len(rows) : rows[k]["EventID"] = <<" ","A"," ">>
    /\ Len(files[INDEX_FILE].items) = 2

====
